---- MODULE Spec2Model ----
(***************************************************************************)
(* whisper-api (src/main.py): the in-process job scheduler.                *)
(*                                                                         *)
(* One asyncio event loop runs N request handlers (transcribe_audio), one  *)
(* background worker() task, and the startup/shutdown handlers.  They      *)
(* share app.state.queue (an unbounded asyncio.Queue), one asyncio.Future  *)
(* per job, and the files on disk.  A coroutine runs without interruption  *)
(* between two suspension points (an await that really blocks), so each    *)
(* action below is the code between two suspension points.                 *)
(*                                                                         *)
(* Temporary file names (tempfile.NamedTemporaryFile) and uuid4 task ids   *)
(* are treated as fresh: request r owns the paths <<"src", r>> and         *)
(* <<"norm", r>> and the task id r.                                        *)
(***************************************************************************)
EXTENDS Naturals, Integers, Sequences, FiniteSets, TLC

\* ------------------------------------------------------------------ bounds
\* number of HTTP requests to /transcribe
MaxReq == 2
\* number of worker task identities (the code only ever creates one task)
MaxWorkers == 2

Req == 1..MaxReq

\* ------------------------------------------------------------ text helpers
\* Text is a sequence of one-character strings.
Whitespace == {" ", "\n"}

RECURSIVE LStrip(_)
LStrip(s) == IF s = <<>> THEN <<>>
             ELSE IF Head(s) \in Whitespace THEN LStrip(Tail(s)) ELSE s

RECURSIVE RStrip(_)
RStrip(s) == IF s = <<>> THEN <<>>
             ELSE IF s[Len(s)] \in Whitespace
                  THEN RStrip(SubSeq(s, 1, Len(s) - 1)) ELSE s

\* str.strip(): drop the leading and the trailing whitespace
StripNothing(s) == s
Strip(s) == RStrip(LStrip(s))

\* Python's  a or b  on strings: a unless it is empty
PyOr(a, b) == IF a # <<>> THEN a ELSE b

\* what is spoken in the audio uploaded by request r
Alphabet == <<"a", "b", "c", "d", "e", "f", "g", "h">>
Spoken(r) == Alphabet[r]

\* ------------------------------------------------------------ environment
\* API_TOKEN as read from the environment at import time
Tokens == {"", "s3cret"}
\* Authorization headers a client may send
AuthHeaders == {"", "Bearer s3cret"}

\* verify_token: the request passes iff the token is configured and matches
TokenOk(token, authorization) ==
  ~(token = "" \/ authorization # "Bearer " \o token)

\* what ffmpeg may do: its exit status and whether the normalized file exists
ConvertOutcomes == { [rc |-> 0, created |-> TRUE],
                     [rc |-> 1, created |-> FALSE],
                     [rc |-> 0, created |-> FALSE] }

\* convert_audio_to_whisper_format raises iff this is TRUE
ConvertFails(c) == c.rc # 0 \/ ~c.created

\* what whisper-cli may do for the audio of request r: exit status, captured
\* streams, whether result.json exists and whether it holds a "text" string;
\* oserror is the errno of an OSError raised while the subprocess is spawned
\* or its output read ("" when there is none)
WhisperOutcomes(r) ==
  { [oserror |-> "", rc |-> 0, stderr |-> <<>>, stdout |-> <<>>, json |-> TRUE, hasText |-> TRUE,
     text |-> <<" ", Spoken(r), "\n">>],
    [oserror |-> "", rc |-> 0, stderr |-> <<>>, stdout |-> <<>>, json |-> TRUE, hasText |-> TRUE,
     text |-> <<Spoken(r)>>],
    [oserror |-> "", rc |-> 1, stderr |-> <<" ", "E", "\n">>, stdout |-> <<>>, json |-> FALSE,
     hasText |-> FALSE, text |-> <<>>],
    [oserror |-> "", rc |-> 1, stderr |-> <<" ">>, stdout |-> <<>>, json |-> FALSE,
     hasText |-> FALSE, text |-> <<>>],
    [oserror |-> "", rc |-> 0, stderr |-> <<>>, stdout |-> <<>>, json |-> FALSE, hasText |-> FALSE,
     text |-> <<>>],
    [oserror |-> "", rc |-> 0, stderr |-> <<>>, stdout |-> <<>>, json |-> TRUE, hasText |-> FALSE,
     text |-> <<>>],
    [oserror |-> "ETIMEDOUT", rc |-> 0, stderr |-> <<>>, stdout |-> <<>>,
     json |-> FALSE, hasText |-> FALSE, text |-> <<>>] }

\* ------------------------------------------------- results and exceptions
NoValue == [kind |-> "none", text |-> <<>>, etype |-> "", msg |-> <<>>]
TextValue(t) == [kind |-> "text", text |-> t, etype |-> "", msg |-> <<>>]
ExcValue(ty, m) == [kind |-> "exc", text |-> <<>>, etype |-> ty, msg |-> m]

\* the message of the RuntimeError raised for a non-zero exit status
ExitMessageNoPrefix(c) == PyOr(Strip(c.stderr), Strip(c.stdout))
ExitMessage(c) ==
  <<"whisper.cpp failed with code ", ToString(c.rc), ": ">>
    \o PyOr(Strip(c.stderr), Strip(c.stdout))

\* the subclass Python gives an OSError with this errno, and its str()
OSErrorClass(e) == IF e = "ETIMEDOUT" THEN "TimeoutError" ELSE "OSError"
OSErrorMessage(e) == <<"[Errno ", e, "] ", "Connection timed out">>

\* run_whisper: the stripped text, or the exception it raises
RunWhisper(c) ==
  IF c.oserror # "" THEN ExcValue(OSErrorClass(c.oserror), OSErrorMessage(c.oserror))
  ELSE IF c.rc # 0 THEN ExcValue("RuntimeError", ExitMessage(c))
  ELSE IF ~c.json
       THEN ExcValue("RuntimeError", <<"whisper.cpp did not create JSON output">>)
  ELSE IF ~c.hasText
       THEN ExcValue("RuntimeError", <<"JSON output missing transcription text">>)
  ELSE TextValue(Strip(c.text))

\* ---------------------------------------------------------- asyncio.Future
NoFuture == [state |-> "NONE", value |-> NoValue]
NewFuture == [state |-> "PENDING", value |-> NoValue]
InvalidStateError == ExcValue("InvalidStateError", <<"invalid state">>)

\* Future.done()
FutureDoneNever(f) == FALSE
FutureDone(f) == f.state # "PENDING"

\* Future.set_result / set_exception: raise InvalidStateError on a done future
FutureSet(f, v) ==
  IF f.state # "PENDING"
  THEN [fut |-> f, raised |-> TRUE, exc |-> InvalidStateError]
  ELSE [fut |-> [state |-> "FINISHED", value |-> v], raised |-> FALSE, exc |-> NoValue]

\* Future.cancel(): no effect on a done future
FutureCancel(f) ==
  IF f.state # "PENDING" THEN f ELSE [state |-> "CANCELLED", value |-> NoValue]

\* ------------------------------------------------------------------- files
\* Path.unlink(missing_ok=True)
UnlinkNothing(fs, p) == fs
Unlink(fs, p) == fs \ {p}

\* asyncio.Queue (a FIFO deque): put_nowait appends on the right,
\* get_nowait takes from the left
QueuePut(q, t) == Append(q, t)
QueueGetLifo(q) == [item |-> q[Len(q)], rest |-> SubSeq(q, 1, Len(q) - 1)]
QueueGet(q) == [item |-> Head(q), rest |-> Tail(q)]

\* ------------------------------------------------------------------- state
VARIABLES
  API_TOKEN,    \* the configured shared secret ("" when unset)
  gw,           \* gw[r]: where request r's handler is, and its response
  files,        \* the paths that exist on disk
  queue,        \* app.state.queue: task ids, oldest first
  fut,          \* fut[r]: the future of the task made by request r
  tasks,        \* the worker() tasks created so far, in creation order
  worker_task,  \* app.state.worker_task: 0 (None) or an index into tasks
  life,         \* the startup/shutdown handlers: position, last outcomes, and
                \* whether the last startup created a worker task
  enqLog,       \* history: task ids in the order they were enqueued
  deqLog,       \* history: task ids in the order the workers dequeued them
  produced,     \* history: produced[r], what run_whisper ended with for task r
  unlinks       \* history: unlinks[r], how often a worker unlinked r's audio

vars == <<API_TOKEN, gw, files, queue, fut, tasks, worker_task, life,
          enqLog, deqLog, produced, unlinks>>

SrcPath(r) == <<"src", r>>
NormPath(r) == <<"norm", r>>

NoResponse == [status |-> 0, body |-> <<>>]
Response(st, b) == [status |-> st, body |-> b]

Init ==
  /\ API_TOKEN \in Tokens
  /\ gw = [r \in Req |-> [pc |-> "new", resp |-> NoResponse]]
  /\ files = {}
  /\ queue = <<>>
  /\ fut = [r \in Req |-> NoFuture]
  /\ tasks = <<>>
  /\ worker_task = 0
  /\ life = [pc |-> "idle", startup |-> "none", created |-> FALSE,
             shutdown |-> "none"]
  /\ enqLog = <<>>
  /\ deqLog = <<>>
  /\ produced = [r \in Req |-> NoValue]
  /\ unlinks = [r \in Req |-> 0]

\* ---------------------------------------------------------------- gateway
\* POST /transcribe arrives: verify_token, then the upload is staged to a
\* temporary file and ffmpeg is started (suspends in process.communicate()).
Receive(r, authorization) ==
  /\ gw[r].pc = "new"
  /\ IF TokenOk(API_TOKEN, authorization)
     THEN /\ gw' = [gw EXCEPT ![r].pc = "convert"]
          /\ files' = files \cup {SrcPath(r)}
     ELSE /\ gw' = [gw EXCEPT ![r] = [pc |-> "done",
                      resp |-> Response(401, <<"Invalid or missing bearer token">>)]]
          /\ files' = files
  /\ UNCHANGED <<API_TOKEN, queue, fut, tasks, worker_task, life,
                 enqLog, deqLog, produced, unlinks>>

\* ffmpeg has ended.  The staged upload is unlinked; on failure the
\* RuntimeError leaves the handler (a plain 500); otherwise the task and its
\* future are created and put on the queue (put on an unbounded queue does
\* not suspend) and the handler suspends in wait_for.
\* (the job is created and enqueued whatever the conversion's outcome)
ConvertDoneEnqueues(r, c) ==
  /\ gw[r].pc = "convert"
  /\ files' = Unlink(IF c.created THEN files \cup {NormPath(r)} ELSE files, SrcPath(r))
  /\ fut' = [fut EXCEPT ![r] = NewFuture]
  /\ queue' = QueuePut(queue, r)
  /\ enqLog' = Append(enqLog, r)
  /\ IF ConvertFails(c)
     THEN gw' = [gw EXCEPT ![r] = [pc |-> "done",
                   resp |-> Response(500, <<"Internal Server Error">>)]]
     ELSE gw' = [gw EXCEPT ![r].pc = "wait"]
  /\ UNCHANGED <<API_TOKEN, tasks, worker_task, life, deqLog, produced, unlinks>>
ConvertDone(r, c) ==
  /\ gw[r].pc = "convert"
  /\ files' = Unlink(IF c.created THEN files \cup {NormPath(r)} ELSE files, SrcPath(r))
  /\ IF ConvertFails(c)
     THEN /\ gw' = [gw EXCEPT ![r] = [pc |-> "done",
                      resp |-> Response(500, <<"Internal Server Error">>)]]
          /\ UNCHANGED <<queue, fut, enqLog>>
     ELSE /\ gw' = [gw EXCEPT ![r].pc = "wait"]
          /\ fut' = [fut EXCEPT ![r] = NewFuture]
          /\ queue' = QueuePut(queue, r)
          /\ enqLog' = Append(enqLog, r)
  /\ UNCHANGED <<API_TOKEN, tasks, worker_task, life, deqLog, produced, unlinks>>

\* wait_for returns or re-raises what the future holds.  An exception of
\* class TimeoutError (OSError with errno ETIMEDOUT) is caught by "except
\* asyncio.TimeoutError" where asyncio.TimeoutError is the builtin
\* TimeoutError (Python 3.11 and later) and by "except Exception" where it
\* is a class of its own (earlier versions); any other exception is caught
\* by "except Exception".
GatewayResponses(f) ==
  IF f.value.kind = "text" THEN {Response(200, f.value.text)}
  ELSE IF f.value.etype = "TimeoutError"
       THEN {Response(504, <<"Transcription timed out">>), Response(500, f.value.msg)}
  ELSE {Response(500, f.value.msg)}

\* The future is done and the handler resumes: 200 with the text, 500 with
\* str(exc), or 504 for a stored TimeoutError.
GatewayReturn(r) ==
  /\ gw[r].pc = "wait"
  /\ fut[r].state = "FINISHED"
  /\ \E resp \in GatewayResponses(fut[r]) :
       gw' = [gw EXCEPT ![r] = [pc |-> "done", resp |-> resp]]
  /\ UNCHANGED <<API_TOKEN, files, queue, fut, tasks, worker_task, life,
                 enqLog, deqLog, produced, unlinks>>

\* The deadline elapses while the future is pending: wait_for cancels the
\* future and raises TimeoutError, which becomes a 504.
GatewayTimeoutDrop(r) ==
  /\ gw[r].pc = "wait"
  /\ fut[r].state = "PENDING"
  /\ fut' = [fut EXCEPT ![r] = FutureCancel(fut[r])]
  /\ queue' = SelectSeq(queue, LAMBDA x : x # r)
  /\ gw' = [gw EXCEPT ![r] = [pc |-> "done",
               resp |-> Response(504, <<"Transcription timed out">>)]]
  /\ UNCHANGED <<API_TOKEN, files, tasks, worker_task, life,
                 enqLog, deqLog, produced, unlinks>>
\* (the handler itself stores the timeout in the future)
GatewayTimeoutWrites(r) ==
  /\ gw[r].pc = "wait"
  /\ fut[r].state = "PENDING"
  /\ fut' = [fut EXCEPT ![r] = FutureSet(fut[r],
               ExcValue("TimeoutError", <<"Transcription timed out">>)).fut]
  /\ gw' = [gw EXCEPT ![r] = [pc |-> "done",
               resp |-> Response(504, <<"Transcription timed out">>)]]
  /\ UNCHANGED <<API_TOKEN, files, queue, tasks, worker_task, life,
                 enqLog, deqLog, produced, unlinks>>
\* (no deadline: a bare  await future)
GatewayNoDeadline(r) ==
  /\ gw[r].pc = "wait"
  /\ FALSE
  /\ UNCHANGED vars
GatewayTimeout(r) ==
  /\ gw[r].pc = "wait"
  /\ fut[r].state = "PENDING"
  /\ fut' = [fut EXCEPT ![r] = FutureCancel(fut[r])]
  /\ gw' = [gw EXCEPT ![r] = [pc |-> "done",
               resp |-> Response(504, <<"Transcription timed out">>)]]
  /\ UNCHANGED <<API_TOKEN, files, queue, tasks, worker_task, life,
                 enqLog, deqLog, produced, unlinks>>

\* The deadline elapses in the same loop iteration in which the worker has
\* set the future, before the handler resumes.  What wait_for does then
\* depends on the Python version: up to 3.11 it returns the result
\* (GatewayReturn); from 3.12 on the handler task is cancelled with the result
\* unread and TimeoutError is raised.  The future keeps its value.
GatewayTimeoutLate(r) ==
  /\ gw[r].pc = "wait"
  /\ fut[r].state = "FINISHED"
  /\ gw' = [gw EXCEPT ![r] = [pc |-> "done",
               resp |-> Response(504, <<"Transcription timed out">>)]]
  /\ UNCHANGED <<API_TOKEN, files, queue, fut, tasks, worker_task, life,
                 enqLog, deqLog, produced, unlinks>>

\* ----------------------------------------------------------------- worker
\* A worker() task: st is "get" (suspended in queue.get()), "run" (suspended
\* in run_whisper(task)), "cancelled" or "crashed" (the task has ended);
\* cur is the task it holds; cancelReq: Task.cancel() was called on it.
NewWorker == [st |-> "get", cur |-> 0, cancelReq |-> FALSE]

\* queue.get() returns the oldest task and run_whisper starts the subprocess
WorkerGetSkipDone(w) ==
  /\ w \in DOMAIN tasks
  /\ tasks[w].st = "get"
  /\ ~tasks[w].cancelReq
  /\ queue # <<>>
  /\ LET g == QueueGet(queue) IN
       /\ queue' = g.rest
       /\ tasks' = IF fut[g.item].state # "PENDING" THEN tasks
                   ELSE [tasks EXCEPT ![w] = [@ EXCEPT !.st = "run", !.cur = g.item]]
       /\ deqLog' = Append(deqLog, g.item)
  /\ UNCHANGED <<API_TOKEN, gw, files, fut, worker_task, life,
                 enqLog, produced, unlinks>>
WorkerGet(w) ==
  /\ w \in DOMAIN tasks
  /\ tasks[w].st = "get"
  /\ ~tasks[w].cancelReq
  /\ queue # <<>>
  /\ LET g == QueueGet(queue) IN
       /\ queue' = g.rest
       /\ tasks' = [tasks EXCEPT ![w] = [@ EXCEPT !.st = "run", !.cur = g.item]]
       /\ deqLog' = Append(deqLog, g.item)
  /\ UNCHANGED <<API_TOKEN, gw, files, fut, worker_task, life,
                 enqLog, produced, unlinks>>

\* The try/except of worker(): res is what run_whisper returned or raised.
\* Gives the future afterwards and whether an exception leaves the except
\* clause (and so, after the finally clause, the worker).
WorkerResolve(f, res) ==
  LET try == IF res.kind = "text"
             THEN IF ~FutureDone(f) THEN FutureSet(f, res)
                  ELSE [fut |-> f, raised |-> FALSE, exc |-> NoValue]
             ELSE [fut |-> f, raised |-> TRUE, exc |-> res]
  IN IF ~try.raised THEN try
     ELSE IF ~FutureDone(f) THEN FutureSet(f, try.exc)
          ELSE [fut |-> f, raised |-> FALSE, exc |-> NoValue]

\* The subprocess of the running task has ended with outcome c: the future is
\* resolved unless it is done, the audio file is unlinked, task_done() is
\* called and the worker is back in queue.get().
WorkerFinishDies(w, c) ==
  /\ w \in DOMAIN tasks
  /\ tasks[w].st = "run"
  /\ ~tasks[w].cancelReq
  /\ c \in WhisperOutcomes(tasks[w].cur)
  /\ LET t == tasks[w].cur
         res == RunWhisper(c)
         out == WorkerResolve(fut[t], res)
     IN /\ fut' = [fut EXCEPT ![t] = out.fut]
        /\ files' = Unlink(files, NormPath(t))
        /\ unlinks' = [unlinks EXCEPT ![t] = @ + 1]
        /\ produced' = [produced EXCEPT ![t] = res]
        /\ tasks' = [tasks EXCEPT ![w] =
                       [@ EXCEPT !.st = IF out.raised \/ res.kind = "exc"
                                        THEN "crashed" ELSE "get",
                                 !.cur = 0]]
  /\ UNCHANGED <<API_TOKEN, gw, queue, worker_task, life, enqLog, deqLog>>
\* (a failed job is put back on the queue)
WorkerFinishRequeue(w, c) ==
  /\ w \in DOMAIN tasks
  /\ tasks[w].st = "run"
  /\ ~tasks[w].cancelReq
  /\ c \in WhisperOutcomes(tasks[w].cur)
  /\ LET t == tasks[w].cur
         res == RunWhisper(c)
         out == WorkerResolve(fut[t], res)
     IN /\ fut' = [fut EXCEPT ![t] = out.fut]
        /\ files' = Unlink(files, NormPath(t))
        /\ unlinks' = [unlinks EXCEPT ![t] = @ + 1]
        /\ produced' = [produced EXCEPT ![t] = res]
        /\ tasks' = [tasks EXCEPT ![w] =
                       [@ EXCEPT !.st = IF out.raised THEN "crashed" ELSE "get",
                                 !.cur = 0]]
        /\ queue' = IF res.kind = "exc" THEN QueuePut(queue, t) ELSE queue
        /\ enqLog' = IF res.kind = "exc" THEN Append(enqLog, t) ELSE enqLog
  /\ UNCHANGED <<API_TOKEN, gw, worker_task, life, deqLog>>
WorkerFinish(w, c) ==
  /\ w \in DOMAIN tasks
  /\ tasks[w].st = "run"
  /\ ~tasks[w].cancelReq
  /\ c \in WhisperOutcomes(tasks[w].cur)
  /\ LET t == tasks[w].cur
         res == RunWhisper(c)
         out == WorkerResolve(fut[t], res)
     IN /\ fut' = [fut EXCEPT ![t] = out.fut]
        /\ files' = Unlink(files, NormPath(t))
        /\ unlinks' = [unlinks EXCEPT ![t] = @ + 1]
        /\ produced' = [produced EXCEPT ![t] = res]
        /\ tasks' = [tasks EXCEPT ![w] =
                       [@ EXCEPT !.st = IF out.raised THEN "crashed" ELSE "get",
                                 !.cur = 0]]
  /\ UNCHANGED <<API_TOKEN, gw, queue, worker_task, life, enqLog, deqLog>>

\* CancelledError is thrown into the worker at its suspension point.  In
\* queue.get() it just ends the task; in run_whisper it is not caught by
\* "except Exception", the finally clause unlinks the audio file, and the
\* task ends with the future untouched.
\* (the cancelled worker ends without running its finally clause)
WorkerCancelledNoFinally(w) ==
  /\ w \in DOMAIN tasks
  /\ tasks[w].st \in {"get", "run"}
  /\ tasks[w].cancelReq
  /\ tasks' = [tasks EXCEPT ![w] = [@ EXCEPT !.st = "cancelled"]]
  /\ UNCHANGED <<API_TOKEN, gw, files, queue, fut, worker_task, life,
                 enqLog, deqLog, produced, unlinks>>
WorkerCancelled(w) ==
  /\ w \in DOMAIN tasks
  /\ tasks[w].st \in {"get", "run"}
  /\ tasks[w].cancelReq
  /\ LET t == tasks[w].cur IN
       IF tasks[w].st = "run"
       THEN /\ files' = Unlink(files, NormPath(t))
            /\ unlinks' = [unlinks EXCEPT ![t] = @ + 1]
       ELSE UNCHANGED <<files, unlinks>>
  /\ tasks' = [tasks EXCEPT ![w] = [@ EXCEPT !.st = "cancelled"]]
  /\ UNCHANGED <<API_TOKEN, gw, queue, fut, worker_task, life,
                 enqLog, deqLog, produced>>

\* -------------------------------------------------------------- lifecycle
\* startup_event: raise when API_TOKEN is unset; create the worker task
\* when app.state.worker_task is None.  The handlers may run any number of
\* times, in any order.
StartupAlways ==
  /\ Len(tasks) < MaxWorkers
  /\ IF API_TOKEN = ""
     THEN /\ life' = [life EXCEPT !.startup = "error", !.created = FALSE]
          /\ UNCHANGED <<tasks, worker_task>>
     ELSE /\ life' = [life EXCEPT !.startup = "ok", !.created = TRUE]
          /\ tasks' = Append(tasks, NewWorker)
          /\ worker_task' = Len(tasks) + 1
  /\ UNCHANGED <<API_TOKEN, gw, files, queue, fut, enqLog, deqLog, produced, unlinks>>
\* (no check of API_TOKEN)
StartupNoCheck ==
  /\ life' = [life EXCEPT !.startup = "ok", !.created = (worker_task = 0)]
  /\ IF worker_task = 0
     THEN /\ tasks' = Append(tasks, NewWorker)
          /\ worker_task' = Len(tasks) + 1
     ELSE UNCHANGED <<tasks, worker_task>>
  /\ UNCHANGED <<API_TOKEN, gw, files, queue, fut, enqLog, deqLog, produced, unlinks>>
startup_event ==
  /\ IF API_TOKEN = ""
     THEN /\ life' = [life EXCEPT !.startup = "error", !.created = FALSE]
          /\ UNCHANGED <<tasks, worker_task>>
     ELSE /\ life' = [life EXCEPT !.startup = "ok", !.created = (worker_task = 0)]
          /\ IF worker_task = 0
             THEN /\ tasks' = Append(tasks, NewWorker)
                  /\ worker_task' = Len(tasks) + 1
             ELSE UNCHANGED <<tasks, worker_task>>
  /\ UNCHANGED <<API_TOKEN, gw, files, queue, fut, enqLog, deqLog, produced, unlinks>>

\* shutdown_event up to its await: nothing to do without a worker task;
\* otherwise cancel() it (no effect on a task that has ended) and await it.
shutdown_event ==
  /\ life.pc = "idle"
  /\ IF worker_task = 0
     THEN /\ life' = [life EXCEPT !.shutdown = "ok"]
          /\ UNCHANGED tasks
     ELSE /\ life' = [life EXCEPT !.pc = "await", !.shutdown = "none"]
          /\ tasks' = [tasks EXCEPT ![worker_task].cancelReq =
                         @ \/ tasks[worker_task].st \in {"get", "run"}]
  /\ UNCHANGED <<API_TOKEN, gw, files, queue, fut, worker_task,
                 enqLog, deqLog, produced, unlinks>>

\* The awaited worker task has ended: CancelledError is suppressed; any
\* other exception of the task leaves shutdown_event.
\* (without contextlib.suppress the CancelledError leaves the handler)
ShutdownReturnRaises ==
  /\ life.pc = "await"
  /\ tasks[worker_task].st \in {"cancelled", "crashed"}
  /\ life' = [life EXCEPT !.pc = "idle", !.shutdown = "error"]
  /\ UNCHANGED <<API_TOKEN, gw, files, queue, fut, tasks, worker_task,
                 enqLog, deqLog, produced, unlinks>>
ShutdownReturn ==
  /\ life.pc = "await"
  /\ tasks[worker_task].st \in {"cancelled", "crashed"}
  /\ life' = [life EXCEPT !.pc = "idle",
                !.shutdown = IF tasks[worker_task].st = "cancelled"
                             THEN "ok" ELSE "error"]
  /\ UNCHANGED <<API_TOKEN, gw, files, queue, fut, tasks, worker_task,
                 enqLog, deqLog, produced, unlinks>>

\* ------------------------------------------------------------ specification
Next ==
  \/ \E r \in Req, a \in AuthHeaders : Receive(r, a)
  \/ \E r \in Req, c \in ConvertOutcomes : ConvertDone(r, c)
  \/ \E r \in Req : GatewayReturn(r)
  \/ \E r \in Req : GatewayTimeout(r)
  \/ \E r \in Req : GatewayTimeoutLate(r)
  \/ \E w \in 1..MaxWorkers : WorkerGet(w)
  \/ \E w \in 1..MaxWorkers, r \in Req : \E c \in WhisperOutcomes(r) : WorkerFinish(w, c)
  \/ \E w \in 1..MaxWorkers : WorkerCancelled(w)
  \/ startup_event
  \/ shutdown_event
  \/ ShutdownReturn

Spec == Init /\ [][Next]_vars

\* The steps of a serving application, between its startup and its shutdown:
\* Next without the shutdown handler and the cancellation it delivers.
NextServing ==
  \/ \E r \in Req, a \in AuthHeaders : Receive(r, a)
  \/ \E r \in Req, c \in ConvertOutcomes : ConvertDone(r, c)
  \/ \E r \in Req : GatewayReturn(r)
  \/ \E r \in Req : GatewayTimeout(r)
  \/ \E r \in Req : GatewayTimeoutLate(r)
  \/ \E w \in 1..MaxWorkers : WorkerGet(w)
  \/ \E w \in 1..MaxWorkers, r \in Req : \E c \in WhisperOutcomes(r) : WorkerFinish(w, c)
  \/ startup_event

\* Absent shutdown, the event loop runs every coroutine that is ready, and
\* every whisper-cli call is assumed to end: a worker that can dequeue does,
\* and a running task finishes.
LiveSpec ==
  /\ Init /\ [][NextServing]_vars
  /\ \A w \in 1..MaxWorkers :
       /\ WF_vars(WorkerGet(w))
       /\ WF_vars(\E r \in Req : \E c \in WhisperOutcomes(r) : WorkerFinish(w, c))

\* wait_for arms a timer of TRANSCRIBE_TIMEOUT_SECONDS: a handler suspended
\* in wait_for resumes, with the future's value or with the timeout.  Nothing
\* is assumed about the worker, which may never be started or never run.
DeadlineSpec ==
  /\ Init /\ [][NextServing]_vars
  /\ \A r \in Req :
       WF_vars(GatewayReturn(r) \/ GatewayTimeout(r) \/ GatewayTimeoutLate(r))

\* ---------------------------------------------------------------- notions
Running(w) == w \in DOMAIN tasks /\ tasks[w].st = "run"
RunningJobs == {w \in DOMAIN tasks : tasks[w].st = "run"}
Crashed(w) == w \in DOMAIN tasks /\ tasks[w].st = "crashed"
\* the worker of app.state.worker_task exists, has not ended, is not being cancelled
WorkerActive ==
  /\ worker_task # 0
  /\ tasks[worker_task].st \in {"get", "run"}
  /\ ~tasks[worker_task].cancelReq
\* the worker tasks that have not ended
ActiveWorkers == {w \in DOMAIN tasks : tasks[w].st \in {"get", "run"}}
\* the worker task of app.state.worker_task has ended by cancellation
WorkerStopped == worker_task # 0 /\ tasks[worker_task].st = "cancelled"
Elems(q) == {q[i] : i \in 1..Len(q)}
Enqueued(r) == r \in Elems(enqLog)
Started(r) == r \in Elems(deqLog)
Executed(r) == produced[r].kind # "none"
Released(r) == NormPath(r) \notin files /\ unlinks[r] >= 1
TimedOut(r) == gw[r].pc = "done" /\ gw[r].resp.status = 504
Resolved(r) == fut[r].state \in {"FINISHED", "CANCELLED"}
\* how many times r occurs in the history q
Occurrences(q, r) == Cardinality({i \in 1..Len(q) : q[i] = r})

\* ------------------------------------------------------------------ claims

\* C1: whatever the interleaving of gateway submissions, worker steps and
\* lifecycle events, at most one job is Running (dequeued by a worker whose
\* finally block has not ended) at any time.
C1_AtMostOneRunning == Cardinality(RunningJobs) <= 1
\* a job is Running while another submission is pending in the queue
C1_Witness == \E w \in DOMAIN tasks : Running(w) /\ queue # <<>>

\* C2: jobs are dequeued in the order they were enqueued: the dequeue
\* history is always a prefix of the enqueue history.
C2_Fifo ==
  /\ Len(deqLog) <= Len(enqLog)
  /\ deqLog = SubSeq(enqLog, 1, Len(deqLog))
\* two jobs, enqueued in the order 2 then 1, have both been dequeued
C2_Witness == Len(deqLog) = 2 /\ enqLog[1] = 2 /\ enqLog[2] = 1

\* C3: once a future is done (result, exception or cancelled by its
\* gateway's timeout) no step changes it, and no step ends a worker with an
\* error (set_result or set_exception on a done future would raise one).
C3_ResolveOnce ==
  [][/\ \A r \in Req : Resolved(r) => fut'[r] = fut[r]
     /\ \A w \in DOMAIN tasks' : tasks'[w].st # "crashed"]_vars
\* a worker has finished a job whose future its gateway had cancelled, and
\* is back in queue.get()
C3_Witness ==
  \E r \in Req : /\ fut[r].state = "CANCELLED"
                 /\ produced[r].kind = "text"
                 /\ \E w \in DOMAIN tasks : tasks[w].st = "get"

\* C4: a gateway that returns a success returns the stripped text whisper
\* produced for its own job, and at that moment the job's normalized audio
\* file does not exist; a gateway that ends other than by timeout after its
\* job succeeded returns that success.
C4_SuccessText ==
  \A r \in Req :
    /\ gw[r].resp.status = 200 =>
         /\ produced[r].kind = "text"
         /\ gw[r].resp.body = <<Spoken(r)>>
         /\ NormPath(r) \notin files
    /\ (gw[r].pc = "done" /\ produced[r].kind = "text" /\ ~TimedOut(r)) =>
         gw[r].resp = Response(200, <<Spoken(r)>>)
\* a gateway has returned 200 while another job has also been executed
C4_Witness ==
  \E r, o \in Req : r # o /\ gw[r].resp.status = 200 /\ Executed(o)

\* C5: a future is cancelled only by its gateway timing out with a 504, and
\* a job whose gateway timed out is, as long as the worker stays active,
\* eventually executed and its audio file released.
C5_TimeoutStillRuns ==
  /\ [](\A r \in Req : fut[r].state = "CANCELLED" => TimedOut(r))
  /\ \A r \in Req :
       (TimedOut(r) /\ WorkerActive) ~> ((Executed(r) /\ Released(r)) \/ ~WorkerActive)
\* a job whose gateway timed out while it was still queued has been run and released
C5_Witness ==
  \E r \in Req : /\ TimedOut(r) /\ fut[r].state = "CANCELLED"
                 /\ Executed(r) /\ Released(r) /\ WorkerActive

\* C6: a gateway timeout changes only that gateway and its own future: the
\* queue, the worker tasks, the files and every other job are unchanged.
C6_TimeoutFrame ==
  [][\A r \in Req :
       (gw[r].pc = "wait" /\ gw'[r].pc = "done" /\ gw'[r].resp.status = 504) =>
         /\ queue' = queue
         /\ tasks' = tasks
         /\ files' = files
         /\ worker_task' = worker_task
         /\ \A o \in Req \ {r} : fut'[o] = fut[o] /\ gw'[o] = gw[o]]_vars
\* a timed-out job is still pending in the queue, and one is Running
C6_Witness ==
  /\ \E r \in Req : TimedOut(r) /\ r \in Elems(queue)
  /\ \E w \in DOMAIN tasks : Running(w)

\* C7 as stated: whenever whisper has failed for a job (non-zero exit, no
\* JSON output, no text in the output), the job's future holds an exception
\* with a non-empty message.
C7_FailureResolvesSlot ==
  \A r \in Req :
    produced[r].kind = "exc" =>
      /\ fut[r].state = "FINISHED"
      /\ fut[r].value.kind = "exc"
      /\ fut[r].value.msg # <<>>

\* C7 as amended: whenever whisper has failed for a job whose future was not
\* cancelled by a gateway timeout, the future holds the exception raised,
\* with a non-empty message; a future cancelled before stays cancelled; and
\* a gateway that ends other than by timeout after the failure returns a
\* 500 whose detail is that message.
C7_FailureUnlessAbandoned ==
  \A r \in Req :
    produced[r].kind = "exc" =>
      /\ produced[r].msg # <<>>
      /\ fut[r].state \in {"FINISHED", "CANCELLED"}
      /\ fut[r].state = "FINISHED" => fut[r].value = produced[r]
      /\ fut[r].state = "CANCELLED" => TimedOut(r)
      /\ (gw[r].pc = "done" /\ ~TimedOut(r)) =>
           /\ gw[r].resp = Response(500, produced[r].msg)
           /\ gw[r].resp.status # 504
\* whisper exited non-zero with blank output and the waiting gateway has
\* answered 500
C7_Witness ==
  \E r \in Req : /\ produced[r].kind = "exc"
                 /\ produced[r].msg = <<"whisper.cpp failed with code ", "1", ": ">>
                 /\ gw[r].resp.status = 500

\* C8: a worker whose job ends in failure goes back to queue.get(), and
\* a job waiting in the queue is, as long as the worker stays active,
\* eventually dequeued and executed, also after another job has failed.
C8_FailureKeepsWorker ==
  /\ [][\A w \in DOMAIN tasks :
          (Running(w) /\ ~tasks[w].cancelReq /\ tasks'[w].st # "run"
             /\ produced'[tasks[w].cur].kind = "exc") => tasks'[w].st = "get"]_vars
  /\ \A r \in Req :
       (r \in Elems(queue) /\ WorkerActive /\ \E o \in Req : produced[o].kind = "exc")
         ~> (Executed(r) \/ ~WorkerActive)
\* a job has failed and the job enqueued after it has been executed
C8_Witness ==
  /\ Len(deqLog) = 2
  /\ produced[deqLog[1]].kind = "exc"
  /\ Executed(deqLog[2])

\* C9: a worker unlinks a job's audio file at most once; the file of an
\* executed job is gone and was unlinked exactly once; and the file of an
\* enqueued job is gone only if a worker unlinked it when the job's
\* execution ended (finished, or cancelled while Running).
C9_ReleasedOnce ==
  \A r \in Req :
    /\ unlinks[r] <= 1
    /\ Executed(r) => (unlinks[r] = 1 /\ NormPath(r) \notin files)
    /\ (Enqueued(r) /\ NormPath(r) \notin files) =>
         /\ unlinks[r] = 1
         /\ \/ Executed(r)
            \/ \E w \in DOMAIN tasks : tasks[w].st = "cancelled" /\ tasks[w].cur = r
    /\ (Enqueued(r) /\ unlinks[r] = 0) => NormPath(r) \in files
\* a job failed after its gateway had timed out, and its file was released once
C9_Witness ==
  \E r \in Req : /\ produced[r].kind = "exc" /\ TimedOut(r)
                 /\ unlinks[r] = 1 /\ NormPath(r) \notin files

\* C10: if A was enqueued before B and B has been dequeued, then A's future
\* is done and A's audio file has been released.
C10_NoOverlap ==
  \A i, j \in 1..Len(enqLog) :
    (i < j /\ Started(enqLog[j])) =>
      /\ Resolved(enqLog[i])
      /\ Released(enqLog[i])
\* B is Running after A, enqueued first, was executed
C10_Witness ==
  /\ Len(enqLog) = 2
  /\ Executed(enqLog[1])
  /\ \E w \in DOMAIN tasks : Running(w) /\ tasks[w].cur = enqLog[2]

\* C11: a handler waiting in wait_for eventually ends with exactly one
\* response, a 200, a 500 or a 504, whatever the worker does (no worker
\* task, a cancelled one, or one that never dequeues the job); a response
\* once given never changes.
C11_WaitBounded ==
  /\ \A r \in Req :
       (gw[r].pc = "wait") ~> (gw[r].pc = "done" /\ gw[r].resp.status \in {200, 500, 504})
  /\ [][\A r \in Req : gw[r].pc = "done" => gw'[r] = gw[r]]_vars
\* a gateway has answered 504 although no worker task was ever created
C11_Witness ==
  \E r \in Req : TimedOut(r) /\ worker_task = 0 /\ r \in Elems(queue)

\* C12: at no time are two worker tasks alive, and a step taken while a
\* worker task is alive creates no task and does not rebind
\* app.state.worker_task; a startup in particular leaves every task as it is.
C12_OneWorker ==
  [][/\ Cardinality(ActiveWorkers') <= 1
     /\ ActiveWorkers # {} =>
          /\ Len(tasks') = Len(tasks)
          /\ worker_task' = worker_task
          /\ (life'.startup # life.startup \/ life'.created # life.created)
               => tasks' = tasks]_vars
\* a startup has run while the worker was Running, and created nothing
C12_Witness ==
  /\ life.startup = "ok" /\ ~life.created
  /\ \E w \in DOMAIN tasks : Running(w) /\ ~tasks[w].cancelReq

\* C13: with API_TOKEN unset, every startup ends in an error, creates no
\* worker task and leaves app.state.worker_task and the tasks as they were.
C13_StartupAborts ==
  [][API_TOKEN = "" =>
       /\ life'.startup \in {"none", "error"}
       /\ ~life'.created
       /\ tasks' = tasks /\ tasks = <<>>
       /\ worker_task' = worker_task /\ worker_task = 0]_vars
\* a startup has failed for the missing token
C13_Witness ==
  API_TOKEN = "" /\ life.startup = "error" /\ tasks = <<>> /\ worker_task = 0

\* C14: a shutdown that returns, returns without error and with no worker
\* task alive; once the worker task is cancelled no job is dequeued or
\* finished any more; and the cancellation of the worker leaves the queue
\* and every future as they were (pending jobs stay queued, the job in
\* flight stays unresolved).
C14_Shutdown ==
  [][/\ ( \/ (life.pc = "await" /\ life'.pc = "idle")
          \/ (life.pc = "idle" /\ life'.pc = "idle" /\ life'.shutdown # life.shutdown) )
          => (life'.shutdown = "ok" /\ ActiveWorkers' = {})
     /\ WorkerStopped => (deqLog' = deqLog /\ produced' = produced /\ WorkerStopped')
     /\ (\E w \in DOMAIN tasks : tasks[w].st \in {"get", "run"} /\ tasks'[w].st = "cancelled")
          => (queue' = queue /\ fut' = fut)]_vars
\* shutdown has returned normally with one job cut off in flight, its future
\* still pending, and another job left in the queue
C14_Witness ==
  /\ life.pc = "idle" /\ life.shutdown = "ok" /\ WorkerStopped
  /\ tasks[worker_task].cur # 0
  /\ fut[tasks[worker_task].cur].state = "PENDING"
  /\ queue # <<>>

\* C15 as stated: every future that is no longer pending was moved out of
\* the pending state by the worker, and holds the result or the exception of
\* run_whisper.
C15_WorkerOnlyWriter ==
  \A r \in Req :
    Resolved(r) => (fut[r].state = "FINISHED" /\ fut[r].value = produced[r])

\* C15 as amended: a pending future changes only in a step of the worker
\* that runs its job, which stores what run_whisper ended with, or in the
\* timeout step of the gateway that created it, which cancels it and stores
\* no value; nothing else writes a future.
C15_WorkerOrOwnTimeout ==
  [][\A r \in Req :
       /\ fut[r].state = "NONE" /\ fut'[r] # fut[r] =>
            (gw[r].pc = "convert" /\ fut'[r] = NewFuture)
       /\ fut[r].state = "PENDING" /\ fut'[r] # fut[r] =>
            \/ /\ \E w \in DOMAIN tasks :
                    Running(w) /\ tasks[w].cur = r /\ tasks'[w].st = "get"
               /\ fut'[r].state = "FINISHED"
               /\ fut'[r].value = produced'[r]
               /\ fut'[r].value.kind \in {"text", "exc"}
               /\ gw'[r] = gw[r]
            \/ /\ gw[r].pc = "wait" /\ gw'[r].pc = "done" /\ gw'[r].resp.status = 504
               /\ fut'[r] = [state |-> "CANCELLED", value |-> NoValue]
               /\ tasks' = tasks
       /\ Resolved(r) => fut'[r] = fut[r]]_vars
\* one future was cancelled by its gateway's timeout, another was set by the worker
C15_Witness ==
  \E r, o \in Req : /\ fut[r].state = "CANCELLED" /\ ~Executed(r)
                    /\ fut[o].state = "FINISHED"

\* C16: a gateway answers with the timeout outcome (504) only when its
\* deadline elapsed while its future was still pending, that is, only with
\* the future cancelled by wait_for; a future the worker set, to a text or to
\* any exception, never yields a 504.
C16_TimeoutOnlyUnresolved ==
  \A r \in Req : TimedOut(r) => fut[r].state = "CANCELLED"

\* C17: every startup_event that runs with API_TOKEN set, outside a
\* shutdown, ends with exactly one worker task alive, bound to
\* app.state.worker_task and not cancelled; also a startup that follows a
\* shutdown.
C17_StartupYieldsWorker ==
  [][(/\ life.pc = "idle"
      /\ API_TOKEN # ""
      /\ life'.startup = "ok"
      /\ (life'.startup # life.startup \/ life'.created # life.created))
       => (WorkerActive' /\ Cardinality(ActiveWorkers') = 1)]_vars

\* C18: a submission that passed conversion has been put on the queue
\* exactly once, and no request is ever enqueued or dequeued twice; a job
\* that was dequeued is not in the queue and is not enqueued again; and the
\* outcome whisper produced for a job is never replaced by a second run,
\* whether the job failed or its gateway timed out.
C18_OnceOnly ==
  [][\A r \in Req :
       /\ Occurrences(enqLog', r) <= 1
       /\ Occurrences(deqLog', r) <= 1
       /\ gw'[r].pc = "wait" => Occurrences(enqLog', r) = 1
       /\ Started(r) => /\ r \notin Elems(queue')
                       /\ Occurrences(enqLog', r) = Occurrences(enqLog, r)
       /\ Executed(r) => (produced'[r] = produced[r] /\ unlinks'[r] = unlinks[r])
       /\ \A w \in DOMAIN tasks' :
            (tasks'[w].st = "run" /\ tasks'[w].cur = r) => ~Executed(r)]_vars
\* one job has failed, another was executed after its gateway had timed
\* out, and the worker waits on the empty queue
C18_Witness ==
  /\ \E r, o \in Req : /\ r # o
                        /\ produced[r].kind = "exc" /\ gw[r].resp.status = 500
                        /\ fut[o].state = "CANCELLED" /\ Executed(o)
  /\ queue = <<>>
  /\ WorkerActive /\ tasks[worker_task].st = "get"

\* C19: the step in which a handler's conversion fails takes the handler
\* from the conversion straight to a 500 answer: it creates no future, puts
\* nothing on the queue and leaves the queue, the futures and the worker
\* tasks as they were; and a request that was never enqueued has no future,
\* is not waiting and is never enqueued later.
C19_ConvertFailureFrame ==
  [][\A r \in Req :
       /\ (gw[r].pc = "convert" /\ gw'[r].pc = "done") =>
            /\ gw'[r].resp.status = 500
            /\ queue' = queue /\ enqLog' = enqLog
            /\ fut' = fut /\ fut[r] = NoFuture
            /\ tasks' = tasks /\ worker_task' = worker_task
            /\ deqLog' = deqLog /\ produced' = produced
       /\ ~Enqueued(r)' =>
            (fut'[r] = NoFuture /\ gw'[r].pc # "wait" /\ r \notin Elems(queue'))
       /\ (gw[r].pc = "done" /\ ~Enqueued(r)) => ~Enqueued(r)']_vars
\* a conversion has failed while the worker was Running another job
C19_Witness ==
  \E r, o \in Req :
    /\ gw[r].pc = "done" /\ gw[r].resp.status = 500 /\ ~Enqueued(r)
    /\ \E w \in DOMAIN tasks : Running(w) /\ tasks[w].cur = o

\* C20: the step that ends a worker cancelled in the middle of a job
\* unlinks that job's audio file, once, and leaves every future, the queue
\* and the outcomes as they were; the job cut off is never executed and its
\* future is never set by a worker; and the audio file of a job that is in
\* the queue exists and was never unlinked, also after the shutdown.
C20_ShutdownRelease ==
  [][/\ \A w \in DOMAIN tasks :
          (Running(w) /\ tasks'[w].st = "cancelled") =>
            /\ NormPath(tasks[w].cur) \notin files'
            /\ unlinks'[tasks[w].cur] = unlinks[tasks[w].cur] + 1
            /\ fut' = fut /\ produced' = produced /\ queue' = queue
            /\ \A q \in Elems(queue) : NormPath(q) \in files' /\ unlinks'[q] = 0
     /\ \A w \in DOMAIN tasks' :
          (tasks'[w].st = "cancelled" /\ tasks'[w].cur # 0) =>
            /\ NormPath(tasks'[w].cur) \notin files'
            /\ unlinks'[tasks'[w].cur] = 1
            /\ produced'[tasks'[w].cur].kind = "none"
            /\ fut'[tasks'[w].cur].state \in {"PENDING", "CANCELLED"}
     /\ \A q \in Elems(queue') : NormPath(q) \in files' /\ unlinks'[q] = 0]_vars
\* shutdown has returned after cutting off a job in flight: that job's file
\* is gone and its future pending, and the job left in the queue still has
\* its file
C20_Witness ==
  /\ life.pc = "idle" /\ life.shutdown = "ok" /\ WorkerStopped
  /\ tasks[worker_task].cur # 0
  /\ fut[tasks[worker_task].cur].state = "PENDING"
  /\ NormPath(tasks[worker_task].cur) \notin files
  /\ \E q \in Elems(queue) : NormPath(q) \in files

====
